---- MODULE Spec2Model ----
(***************************************************************************)
(* A model of skypydb's schema-managed table store (db/database.py) and    *)
(* of the SQLite statements it issues.                                     *)
(*                                                                         *)
(* The persisted state is the set of physical tables seen through the one  *)
(* shared connection: each table has an ordered column list, a primary-key *)
(* column, NOT NULL columns and its rows in rowid order.  The system table *)
(* _skypy_config is one of these tables: the code gives its name no        *)
(* special treatment in create_table, delete_table, insert_data,           *)
(* delete_data or add_columns_if_needed.                                   *)
(*                                                                         *)
(* Every Database method is an operator from the tables (and its           *)
(* arguments) to the tables afterwards and the value returned or the       *)
(* exception raised; the actions apply these operators to inputs drawn     *)
(* from small sets.                                                        *)
(*                                                                         *)
(* insert_data and add_columns_if_needed are also taken statement by       *)
(* statement, by one caller and by two threads on the shared connection;   *)
(* each execute() is one step, as the connection runs one statement at a   *)
(* time.                                                                   *)
(* create_table is taken statement by statement by two threads as well.    *)
(*                                                                         *)
(* The Client (api/client.py) is the operations it composes from the       *)
(* Database methods and the dashboard thread it holds.                     *)
(*                                                                         *)
(* Scope of the engine model: identifiers are compared exactly (no two     *)
(* names of the model differ only by letter case), every column has TEXT   *)
(* affinity and every bound parameter is text, as in the code.             *)
(***************************************************************************)
EXTENDS Integers, Sequences, FiniteSets, TLC

VARIABLES tables, uuids, call, ret, writers, _dashboard_thread, threads

vars == <<tables, uuids, call, ret, writers, _dashboard_thread, threads>>

\* the Client's dashboard: the thread it holds and the threads it has started
dash == <<_dashboard_thread, threads>>

-----------------------------------------------------------------------------
(* Bounds of the model *)

\* rows the tables may hold together before the model stops adding rows
MaxRows == 2
\* identifiers uuid.uuid4() hands out before the model stops generating
MaxUuid == 2
\* dashboard threads a client starts before the model stops starting them
MaxThreads == 3

-----------------------------------------------------------------------------
(* Python values *)

PyStr(s) == <<"str", s>>
PyInt(i) == <<"int", i>>
PyBool(b) == <<"bool", b>>
PyNone == <<"none">>
PyList(xs) == <<"list", xs>>
\* a dict: its key/value pairs in insertion order
PyDict(d) == <<"dict", d>>
\* a float with one decimal, held in tenths: PyFloat(35) is 3.5
PyFloat(tenths) == <<"float", tenths>>
\* a type object: str, int, float, bool, list
PyType(name) == <<"type", name>>

IsStr(v) == v[1] = "str"
IsList(v) == v[1] = "list"

\* repr() of the scalars the model puts in lists
PyRepr(v) ==
    CASE v[1] = "str" -> "'" \o v[2] \o "'"
      [] v[1] = "int" -> ToString(v[2])
      [] v[1] = "bool" -> (IF v[2] THEN "True" ELSE "False")
      [] OTHER -> "None"

RECURSIVE ReprItems(_)
ReprItems(xs) ==
    IF xs = <<>> THEN ""
    ELSE IF Len(xs) = 1 THEN PyRepr(xs[1])
    ELSE PyRepr(xs[1]) \o ", " \o ReprItems(Tail(xs))

\* str(v)
PyToStr(v) ==
    CASE v[1] = "str" -> v[2]
      [] v[1] = "int" -> ToString(v[2])
      [] v[1] = "bool" -> (IF v[2] THEN "True" ELSE "False")
      [] v[1] = "none" -> "None"
      [] v[1] = "list" -> "[" \o ReprItems(v[2]) \o "]"
      [] v[1] = "float" -> ToString(v[2] \div 10) \o "." \o ToString(v[2] % 10)
      [] v[1] = "type" -> "<class '" \o v[2] \o "'>"

\* the largest integer the model spells out as text
MaxInt == 31

\* the texts int() reads as i: surrounding blanks and a plus sign are accepted
IntSpellings(i) == {ToString(i), " " \o ToString(i) \o " ", "+" \o ToString(i)}

\* int(v): <<TRUE, i>>, or <<FALSE, 0>> where Python raises ValueError or
\* TypeError.  A float is truncated, a bool is 0 or 1.
PyInt_of(v) ==
    CASE v[1] = "int" -> <<TRUE, v[2]>>
      [] v[1] = "bool" -> <<TRUE, IF v[2] THEN 1 ELSE 0>>
      [] v[1] = "float" -> <<TRUE, v[2] \div 10>>
      [] v[1] = "str" ->
           IF \E i \in 0..MaxInt : v[2] \in IntSpellings(i)
             THEN <<TRUE, CHOOSE i \in 0..MaxInt : v[2] \in IntSpellings(i)>>
           ELSE <<FALSE, 0>>
      [] OTHER -> <<FALSE, 0>>

\* the texts float() reads as tenths/10, besides the integer spellings
FloatSpellings(tenths) ==
    {ToString(tenths \div 10) \o "." \o ToString(tenths % 10)}
    \cup (IF tenths % 10 = 0 THEN IntSpellings(tenths \div 10) ELSE {})

\* float(v): <<TRUE, tenths>> or <<FALSE, 0>>
PyFloat_of(v) ==
    CASE v[1] = "int" -> <<TRUE, 10 * v[2]>>
      [] v[1] = "bool" -> <<TRUE, IF v[2] THEN 10 ELSE 0>>
      [] v[1] = "float" -> <<TRUE, v[2]>>
      [] v[1] = "str" ->
           IF \E t \in 0..(10 * MaxInt) : v[2] \in FloatSpellings(t)
             THEN <<TRUE, CHOOSE t \in 0..(10 * MaxInt) : v[2] \in FloatSpellings(t)>>
           ELSE <<FALSE, 0>>
      [] OTHER -> <<FALSE, 0>>

\* bool(v) of a value that is not a str: zero, None and the empty list are false
PyTruth(v) ==
    CASE v[1] = "int" -> v[2] # 0
      [] v[1] = "bool" -> v[2]
      [] v[1] = "float" -> v[2] # 0
      [] v[1] = "none" -> FALSE
      [] v[1] = "list" -> v[2] # <<>>
      [] v[1] = "str" -> v[2] # ""
      [] OTHER -> TRUE

\* s.lower() on the texts of the model that hold capitals
Capitals ==
    [s \in {"True", "TRUE", "Yes", "YES", "False", "None", "Alice", "Bob"} |->
        CASE s \in {"True", "TRUE"} -> "true"
          [] s \in {"Yes", "YES"} -> "yes"
          [] s = "False" -> "false"
          [] s = "None" -> "none"
          [] s = "Alice" -> "alice"
          [] s = "Bob" -> "bob"]
StrLower(s) == IF s \in DOMAIN Capitals THEN Capitals[s] ELSE s

-----------------------------------------------------------------------------
(* Results of a call *)

Ok(v) == [kind |-> "ok", val |-> <<v>>]
Raise(e, info) == [kind |-> e, val |-> <<info>>]
IsOk(r) == r.kind = "ok"
Val(r) == r.val[1]

-----------------------------------------------------------------------------
(* The SQLite engine: tables, cells and statements *)

\* a cell is NULL or a text
NULL == <<>>
Text(s) == <<s>>

ConfigTable == "_skypy_config"
Reserved == {"id", "created_at"}

Range(s) == {s[i] : i \in DOMAIN s}

\* CREATE TABLE [n] (id TEXT PRIMARY KEY, created_at TEXT NOT NULL, extra... TEXT)
NewTable(extra) ==
    [cols |-> <<"id", "created_at">> \o extra,
     pk |-> "id",
     notnull |-> {"created_at"},
     rows |-> <<>>]

\* CREATE TABLE _skypy_config (table_name TEXT PRIMARY KEY, config TEXT NOT NULL,
\*                             created_at TEXT NOT NULL)
NewConfigTable ==
    [cols |-> <<"table_name", "config", "created_at">>,
     pk |-> "table_name",
     notnull |-> {"config", "created_at"},
     rows |-> <<>>]

ColSet(t) == Range(t.cols)

\* SELECT name FROM sqlite_master WHERE type='table' AND name=?
InMaster(T, n) == n \in DOMAIN T

\* the table n after CREATE TABLE: T with n bound to t
WithTable(T, n, t) == [m \in DOMAIN T \cup {n} |-> IF m = n THEN t ELSE T[m]]

\* DROP TABLE [n]
DropTable(T, n) == [m \in DOMAIN T \ {n} |-> T[m]]

\* ALTER TABLE ... ADD COLUMN [c] TEXT: every stored row gets NULL in c
AlterAddColumn(t, c) ==
    [t EXCEPT !.cols = Append(@, c),
              !.rows = [i \in DOMAIN t.rows |->
                          [k \in ColSet(t) \cup {c} |->
                              IF k = c THEN NULL ELSE t.rows[i][k]]]]

\* INSERT [OR REPLACE] INTO t (cols) VALUES (vals): the table afterwards, or the
\* error.  A column left out is NULL; NOT NULL and the uniqueness of the
\* primary key are enforced (a NULL key conflicts with nothing); OR REPLACE
\* deletes the rows the new key conflicts with.
SqlInsert(t, cols, vals, orReplace) ==
    LET given == Range(cols)
        pos(c) == CHOOSE i \in DOMAIN cols : cols[i] = c
        row == [c \in ColSet(t) |-> IF c \in given THEN Text(vals[pos(c)]) ELSE NULL]
        clash(r) == row[t.pk] # NULL /\ r[t.pk] = row[t.pk]
    IN  IF ~(given \subseteq ColSet(t))
          THEN [err |-> "OperationalError", table |-> t]
        ELSE IF \E c \in t.notnull : row[c] = NULL
          THEN [err |-> "IntegrityError", table |-> t]
        ELSE IF ~orReplace /\ \E i \in DOMAIN t.rows : clash(t.rows[i])
          THEN [err |-> "IntegrityError", table |-> t]
        ELSE [err |-> "none",
              table |-> [t EXCEPT !.rows =
                            Append(SelectSeq(@, LAMBDA r : ~clash(r)), row)]]

\* A WHERE clause is a sequence of conjuncts; a conjunct is a set of
\* alternatives [col, vals]: "[col] = ?" has one value, "[col] IN (?, ..)"
\* several, and the index condition is the OR of one alternative per column.
Alt(c, vs) == [col |-> c, vals |-> vs]

\* the columns a WHERE clause names
WhereCols(where) == UNION {{a.col : a \in where[i]} : i \in DOMAIN where}

\* row r satisfies the clause: a NULL cell equals nothing
Matches(r, where) ==
    \A i \in DOMAIN where :
        \E a \in where[i] : r[a.col] # NULL /\ r[a.col][1] \in a.vals

-----------------------------------------------------------------------------
(* Python dicts: key/value pairs in insertion order, keys distinct *)

Keys(d) == [i \in DOMAIN d |-> d[i][1]]
KeySet(d) == {d[i][1] : i \in DOMAIN d}
Has(d, k) == k \in KeySet(d)
Get(d, k) == d[CHOOSE i \in DOMAIN d : d[i][1] = k][2]
\* d[k] = v
Put(d, k, v) ==
    IF Has(d, k) THEN [i \in DOMAIN d |-> IF d[i][1] = k THEN <<k, v>> ELSE d[i]]
    ELSE Append(d, <<k, v>>)

-----------------------------------------------------------------------------
(* Database: the table registry *)

\* what a method leaves behind: the tables and the value returned or raised
Done(T, r) == [tables |-> T, ret |-> r]

table_exists(T, table_name) == InMaster(T, table_name)

\* create_table without its existence check: CREATE TABLE IF NOT EXISTS then
\* passes over an existing table in silence
create_table_Silent(T, table_name) ==
    IF InMaster(T, table_name) THEN Done(T, Ok(PyNone))
    ELSE Done(WithTable(T, table_name, NewTable(<<>>)), Ok(PyNone))

create_table(T, table_name) ==
    IF InMaster(T, table_name)
      THEN Done(T, Raise("TableAlreadyExistsError", table_name))
    \* CREATE TABLE IF NOT EXISTS: the name is free here
    ELSE Done(WithTable(T, table_name, NewTable(<<>>)), Ok(PyNone))

delete_table(T, table_name) ==
    IF ~table_exists(T, table_name)
      THEN Done(T, Raise("TableNotFoundError", table_name))
    ELSE Done(DropTable(T, table_name), Ok(PyNone))

get_table_columns(T, table_name) ==
    IF ~table_exists(T, table_name)
      THEN Done(T, Raise("TableNotFoundError", table_name))
    ELSE Done(T, Ok(T[table_name].cols))

\* the rows of sqlite_master: one for each table, in an order the model does
\* not fix
RECURSIVE MasterRows(_)
MasterRows(names) ==
    IF names = {} THEN <<>>
    ELSE LET n == CHOOSE m \in names : TRUE IN <<n>> \o MasterRows(names \ {n})

\* get_all_tables leaving the system table out
get_all_tables_UserOnly(T) == Done(T, Ok(MasterRows(DOMAIN T \ {ConfigTable})))

get_all_tables(T) == Done(T, Ok(MasterRows(DOMAIN T)))

\* the loop of add_columns_if_needed: one ALTER TABLE per listed column that is
\* neither in the column set read before the loop nor reserved; SQLite refuses
\* a column the table has by now ("duplicate column name") and the loop ends
\* there, the earlier ALTERs staying in effect
RECURSIVE AddColumnsLoop(_, _, _)
AddColumnsLoop(t, existing_columns, columns) ==
    IF columns = <<>> THEN [err |-> "none", table |-> t]
    ELSE LET column == Head(columns) IN
         IF column \notin existing_columns /\ column \notin Reserved
           THEN IF column \in ColSet(t)
                  THEN [err |-> "OperationalError", table |-> t]
                ELSE AddColumnsLoop(AlterAddColumn(t, column), existing_columns,
                                    Tail(columns))
         ELSE AddColumnsLoop(t, existing_columns, Tail(columns))

add_columns_if_needed(T, table_name, columns) ==
    LET got == get_table_columns(T, table_name) IN
    IF ~IsOk(got.ret) THEN got
    ELSE LET r == AddColumnsLoop(T[table_name], Range(Val(got.ret)), columns)
             T2 == WithTable(T, table_name, r.table)
         IN  IF r.err # "none" THEN Done(T2, Raise(r.err, "duplicate column name"))
             ELSE Done(T2, Ok(PyNone))

-----------------------------------------------------------------------------
(* Database: rows *)

\* str(uuid.uuid4()) when u identifiers were handed out before
Uuid4(u) == "uuid-" \o ToString(u + 1)

\* insert_data binding only the standard columns' values
insert_data_StandardOnly(T, u, now, table_name, data, generate_id) ==
    IF ~table_exists(T, table_name)
      THEN [tables |-> T, uuids |-> u, ret |-> Raise("TableNotFoundError", table_name)]
    ELSE
    LET d1 == IF generate_id THEN Put(data, "id", PyStr(Uuid4(u))) ELSE data
        d2 == IF ~Has(d1, "created_at") THEN Put(d1, "created_at", PyStr(now)) ELSE d1
        columns_to_add == SelectSeq(Keys(d2), LAMBDA col : col \notin Reserved)
        added == IF columns_to_add # <<>>
                   THEN add_columns_if_needed(T, table_name, columns_to_add)
                 ELSE Done(T, Ok(PyNone))
        kept == SelectSeq(d2, LAMBDA kv : kv[1] \in Reserved)
        ins == SqlInsert(added.tables[table_name], Keys(kept),
                         [i \in DOMAIN kept |-> PyToStr(kept[i][2])], FALSE)
    IN  IF ~IsOk(added.ret) \/ ins.err # "none" \/ ~Has(d2, "id")
          THEN [tables |-> added.tables, uuids |-> u, ret |-> Raise("Error", "")]
        ELSE [tables |-> WithTable(added.tables, table_name, ins.table),
              uuids |-> IF generate_id THEN u + 1 ELSE u, ret |-> Ok(Get(d2, "id"))]

\* insert_data generating an id only for a dict that brings none
insert_data_KeepCallerId(T, u, now, table_name, data, generate_id) ==
    IF ~table_exists(T, table_name)
      THEN [tables |-> T, uuids |-> u, ret |-> Raise("TableNotFoundError", table_name)]
    ELSE
    LET u2 == IF generate_id THEN u + 1 ELSE u
        d1 == IF generate_id /\ ~Has(data, "id")
                THEN Put(data, "id", PyStr(Uuid4(u))) ELSE data
        d2 == IF ~Has(d1, "created_at") THEN Put(d1, "created_at", PyStr(now)) ELSE d1
        columns_to_add == SelectSeq(Keys(d2), LAMBDA col : col \notin Reserved)
        added == IF columns_to_add # <<>>
                   THEN add_columns_if_needed(T, table_name, columns_to_add)
                 ELSE Done(T, Ok(PyNone))
        columns == Keys(d2)
        ins == SqlInsert(added.tables[table_name], columns,
                         [i \in DOMAIN d2 |-> PyToStr(d2[i][2])], FALSE)
        T3 == WithTable(added.tables, table_name, ins.table)
    IN  IF ~IsOk(added.ret)
          THEN [tables |-> added.tables, uuids |-> u2, ret |-> added.ret]
        ELSE IF ins.err # "none"
          THEN [tables |-> T3, uuids |-> u2, ret |-> Raise(ins.err, "INSERT")]
        ELSE IF ~Has(d2, "id")
          THEN [tables |-> T3, uuids |-> u2, ret |-> Raise("KeyError", "id")]
        ELSE [tables |-> T3, uuids |-> u2, ret |-> Ok(Get(d2, "id"))]

\* insert_data; now is datetime.now().isoformat(), u the identifiers handed
\* out so far.  The result also carries the identifiers handed out afterwards.
insert_data(T, u, now, table_name, data, generate_id) ==
    IF ~table_exists(T, table_name)
      THEN [tables |-> T, uuids |-> u, ret |-> Raise("TableNotFoundError", table_name)]
    ELSE
    LET u2 == IF generate_id THEN u + 1 ELSE u
        d1 == IF generate_id THEN Put(data, "id", PyStr(Uuid4(u))) ELSE data
        d2 == IF ~Has(d1, "created_at") THEN Put(d1, "created_at", PyStr(now)) ELSE d1
        columns_to_add == SelectSeq(Keys(d2), LAMBDA col : col \notin Reserved)
        added == IF columns_to_add # <<>>
                   THEN add_columns_if_needed(T, table_name, columns_to_add)
                 ELSE Done(T, Ok(PyNone))
        columns == Keys(d2)
        ins == SqlInsert(added.tables[table_name], columns,
                         [i \in DOMAIN d2 |-> PyToStr(d2[i][2])], FALSE)
        T3 == WithTable(added.tables, table_name, ins.table)
    IN  IF ~IsOk(added.ret)
          THEN [tables |-> added.tables, uuids |-> u2, ret |-> added.ret]
        ELSE IF ins.err # "none"
          THEN [tables |-> T3, uuids |-> u2, ret |-> Raise(ins.err, "INSERT")]
        ELSE IF ~Has(d2, "id")
          THEN [tables |-> T3, uuids |-> u2, ret |-> Raise("KeyError", "id")]
        ELSE [tables |-> T3, uuids |-> u2, ret |-> Ok(Get(d2, "id"))]

\* one filter as a conjunct: IN for a non-empty list, = otherwise
FilterConjunct(column, value) ==
    IF IsList(value) /\ Len(value[2]) > 0
      THEN {Alt(column, {PyToStr(value[2][i]) : i \in DOMAIN value[2]})}
    ELSE {Alt(column, {PyToStr(value)})}

\* SELECT * FROM [table_name] WHERE where, rows as dicts in rowid order
SqlSelect(t, where) == SelectSeq(t.rows, LAMBDA r : Matches(r, where))

get_all_data(T, table_name) ==
    IF ~table_exists(T, table_name)
      THEN Done(T, Raise("TableNotFoundError", table_name))
    ELSE Done(T, Ok(T[table_name].rows))

\* search matching the index against every column, id and created_at included
search_AllColumns(T, table_name, index, filters) ==
    IF ~table_exists(T, table_name)
      THEN Done(T, Raise("TableNotFoundError", table_name))
    ELSE
    LET t == T[table_name]
        index_conditions ==
            IF index # PyNone
              THEN << {Alt(t.cols[i], {PyToStr(index)}) : i \in DOMAIN t.cols} >>
            ELSE <<>>
        kept == SelectSeq(filters, LAMBDA f : f[1] \notin Reserved)
        conditions == index_conditions \o
                      [i \in DOMAIN kept |-> FilterConjunct(kept[i][1], kept[i][2])]
    IN  IF ~(WhereCols(conditions) \subseteq ColSet(t))
          THEN Done(T, Raise("OperationalError", "no such column"))
        ELSE Done(T, Ok(SqlSelect(t, conditions)))

\* search passing over a filter whose value is an empty list
search_SkipEmptyLists(T, table_name, index, filters) ==
    IF ~table_exists(T, table_name)
      THEN Done(T, Raise("TableNotFoundError", table_name))
    ELSE
    LET t == T[table_name]
        non_standard_columns == SelectSeq(t.cols, LAMBDA col : col \notin Reserved)
        index_conditions ==
            IF index # PyNone /\ non_standard_columns # <<>>
              THEN << {Alt(non_standard_columns[i], {PyToStr(index)}) :
                          i \in DOMAIN non_standard_columns} >>
            ELSE <<>>
        kept == SelectSeq(filters,
                          LAMBDA f : f[1] \notin Reserved /\ f[2] # PyList(<<>>))
        conditions == index_conditions \o
                      [i \in DOMAIN kept |-> FilterConjunct(kept[i][1], kept[i][2])]
    IN  IF ~(WhereCols(conditions) \subseteq ColSet(t))
          THEN Done(T, Raise("OperationalError", "no such column"))
        ELSE Done(T, Ok(SqlSelect(t, conditions)))

\* search taking the filters keyed id and created_at as conjuncts too
search_ReservedFilters(T, table_name, index, filters) ==
    IF ~table_exists(T, table_name)
      THEN Done(T, Raise("TableNotFoundError", table_name))
    ELSE
    LET t == T[table_name]
        non_standard_columns == SelectSeq(t.cols, LAMBDA col : col \notin Reserved)
        index_conditions ==
            IF index # PyNone /\ non_standard_columns # <<>>
              THEN << {Alt(non_standard_columns[i], {PyToStr(index)}) :
                          i \in DOMAIN non_standard_columns} >>
            ELSE <<>>
        conditions == index_conditions \o
                      [i \in DOMAIN filters |->
                          FilterConjunct(filters[i][1], filters[i][2])]
    IN  IF ~(WhereCols(conditions) \subseteq ColSet(t))
          THEN Done(T, Raise("OperationalError", "no such column"))
        ELSE Done(T, Ok(SqlSelect(t, conditions)))

\* search adding the filter columns the table lacks before it selects
search_EvolvingColumns(T, table_name, index, filters) ==
    IF ~table_exists(T, table_name)
      THEN Done(T, Raise("TableNotFoundError", table_name))
    ELSE
    LET added == add_columns_if_needed(T, table_name, Keys(filters))
        t == added.tables[table_name]
        non_standard_columns == SelectSeq(t.cols, LAMBDA col : col \notin Reserved)
        index_conditions ==
            IF index # PyNone /\ non_standard_columns # <<>>
              THEN << {Alt(non_standard_columns[i], {PyToStr(index)}) :
                          i \in DOMAIN non_standard_columns} >>
            ELSE <<>>
        kept == SelectSeq(filters, LAMBDA f : f[1] \notin Reserved)
        conditions == index_conditions \o
                      [i \in DOMAIN kept |-> FilterConjunct(kept[i][1], kept[i][2])]
    IN  IF ~IsOk(added.ret) THEN added
        ELSE Done(added.tables, Ok(SqlSelect(t, conditions)))

\* search; index = PyNone stands for no index
search(T, table_name, index, filters) ==
    IF ~table_exists(T, table_name)
      THEN Done(T, Raise("TableNotFoundError", table_name))
    ELSE
    LET t == T[table_name]
        non_standard_columns == SelectSeq(t.cols, LAMBDA col : col \notin Reserved)
        index_conditions ==
            IF index # PyNone /\ non_standard_columns # <<>>
              THEN << {Alt(non_standard_columns[i], {PyToStr(index)}) :
                          i \in DOMAIN non_standard_columns} >>
            ELSE <<>>
        kept == SelectSeq(filters, LAMBDA f : f[1] \notin Reserved)
        conditions == index_conditions \o
                      [i \in DOMAIN kept |-> FilterConjunct(kept[i][1], kept[i][2])]
    IN  IF ~(WhereCols(conditions) \subseteq ColSet(t))
          THEN Done(T, Raise("OperationalError", "no such column"))
        ELSE Done(T, Ok(SqlSelect(t, conditions)))

\* delete_data building its WHERE clause from the first filter alone
delete_data_FirstFilterOnly(T, table_name, filters) ==
    IF ~table_exists(T, table_name)
      THEN Done(T, Raise("TableNotFoundError", table_name))
    ELSE IF filters = <<>>
      THEN Done(T, Raise("ValueError", "Cannot delete without filters"))
    ELSE
    LET t == T[table_name]
        conditions == << FilterConjunct(filters[1][1], filters[1][2]) >>
        left == SelectSeq(t.rows, LAMBDA r : ~Matches(r, conditions))
    IN  IF ~(WhereCols(conditions) \subseteq ColSet(t))
          THEN Done(T, Raise("OperationalError", "no such column"))
        ELSE Done(WithTable(T, table_name, [t EXCEPT !.rows = left]),
                  Ok(Len(t.rows) - Len(left)))

\* delete_data checking its filters before the table
delete_data_FilterFirst(T, table_name, filters) ==
    IF filters = <<>>
      THEN Done(T, Raise("ValueError", "Cannot delete without filters"))
    ELSE IF ~table_exists(T, table_name)
      THEN Done(T, Raise("TableNotFoundError", table_name))
    ELSE
    LET t == T[table_name]
        conditions == [i \in DOMAIN filters |->
                          FilterConjunct(filters[i][1], filters[i][2])]
        left == SelectSeq(t.rows, LAMBDA r : ~Matches(r, conditions))
    IN  IF ~(WhereCols(conditions) \subseteq ColSet(t))
          THEN Done(T, Raise("OperationalError", "no such column"))
        ELSE Done(WithTable(T, table_name, [t EXCEPT !.rows = left]),
                  Ok(Len(t.rows) - Len(left)))

\* delete_data without its safety check, no filter meaning WHERE 1=1
delete_data_Unchecked(T, table_name, filters) ==
    IF ~table_exists(T, table_name)
      THEN Done(T, Raise("TableNotFoundError", table_name))
    ELSE
    LET t == T[table_name]
        conditions == [i \in DOMAIN filters |->
                          FilterConjunct(filters[i][1], filters[i][2])]
        left == SelectSeq(t.rows, LAMBDA r : ~Matches(r, conditions))
    IN  IF ~(WhereCols(conditions) \subseteq ColSet(t))
          THEN Done(T, Raise("OperationalError", "no such column"))
        ELSE Done(WithTable(T, table_name, [t EXCEPT !.rows = left]),
                  Ok(Len(t.rows) - Len(left)))

delete_data(T, table_name, filters) ==
    IF ~table_exists(T, table_name)
      THEN Done(T, Raise("TableNotFoundError", table_name))
    ELSE IF filters = <<>>
      THEN Done(T, Raise("ValueError", "Cannot delete without filters"))
    ELSE
    LET t == T[table_name]
        conditions == [i \in DOMAIN filters |->
                          FilterConjunct(filters[i][1], filters[i][2])]
        left == SelectSeq(t.rows, LAMBDA r : ~Matches(r, conditions))
    IN  IF ~(WhereCols(conditions) \subseteq ColSet(t))
          THEN Done(T, Raise("OperationalError", "no such column"))
        ELSE Done(WithTable(T, table_name, [t EXCEPT !.rows = left]),
                  Ok(Len(t.rows) - Len(left)))

-----------------------------------------------------------------------------
(* Database: the schema config store *)

\* the configs the steps of the model save: declared types are type objects
\* or type names
StepConfigs ==
    { << <<"name", PyType("str")>>, <<"age", PyType("int")>> >>,
      << <<"ok", PyStr("bool")>>, <<"name", PyType("list")>>, <<"uid", PyStr("id")>>,
         <<"id", PyStr("auto")>> >>,
      << <<"table_name", PyStr("str")>>, <<"config", PyStr("text")>> >> }

\* the configs the properties quantify over
Configs ==
    StepConfigs \cup
    { <<>>,
      << <<"name", PyStr("str")>>, <<"age", PyStr("int")>>, <<"id", PyStr("auto")>> >>,
      << <<"age", PyType("float")>>, <<"ok", PyType("bool")>> >>,
      << <<"name", PyStr("str")>>, <<"created_at", PyStr("str")>> >> }

_normalize_type(col_type) ==
    IF col_type = PyType("str") THEN PyStr("str")
    ELSE IF col_type = PyType("int") THEN PyStr("int")
    ELSE IF col_type = PyType("float") THEN PyStr("float")
    ELSE IF col_type = PyType("bool") THEN PyStr("bool")
    ELSE PyStr(PyToStr(col_type))

_normalize_config(config) ==
    [i \in DOMAIN config |-> <<config[i][1], _normalize_type(config[i][2])>>]

\* json.dumps of a dict of str to str
RECURSIVE JsonItems(_)
JsonItems(d) ==
    IF d = <<>> THEN ""
    ELSE LET item == "\"" \o d[1][1] \o "\": \"" \o d[1][2][2] \o "\"" IN
         IF Len(d) = 1 THEN item ELSE item \o ", " \o JsonItems(Tail(d))

JsonDumps(d) == "{" \o JsonItems(d) \o "}"

\* the documents json.loads can meet in the model: those json.dumps writes
JsonDocs == {_normalize_config(c) : c \in Configs}

\* json.loads(s): <<TRUE, dict>>, or <<FALSE, <<>>>> for a text that is no
\* JSON document (JSONDecodeError)
JsonLoads(s) ==
    IF \E d \in JsonDocs : JsonDumps(d) = s
      THEN <<TRUE, CHOOSE d \in JsonDocs : JsonDumps(d) = s>>
    ELSE <<FALSE, <<>>>>

save_table_config(T, now, table_name, config) ==
    LET normalized_config == _normalize_config(config) IN
    IF ~InMaster(T, ConfigTable)
      THEN Done(T, Raise("OperationalError", "no such table"))
    ELSE LET ins == SqlInsert(T[ConfigTable], <<"table_name", "config", "created_at">>,
                              <<table_name, JsonDumps(normalized_config), now>>, TRUE)
         IN  IF ins.err # "none" THEN Done(T, Raise(ins.err, "INSERT OR REPLACE"))
             ELSE Done(WithTable(T, ConfigTable, ins.table), Ok(PyNone))

\* get_table_config: None when no row is found, the first row's document otherwise
get_table_config(T, table_name) ==
    IF ~InMaster(T, ConfigTable)
      THEN Done(T, Raise("OperationalError", "no such table"))
    ELSE IF ~({"table_name", "config"} \subseteq ColSet(T[ConfigTable]))
      THEN Done(T, Raise("OperationalError", "no such column"))
    ELSE
    LET found == SqlSelect(T[ConfigTable], << {Alt("table_name", {table_name})} >>) IN
    IF found = <<>> THEN Done(T, Ok(PyNone))
    ELSE IF found[1]["config"] = NULL
      THEN Done(T, Raise("TypeError", "the JSON object must be str"))
    ELSE LET doc == JsonLoads(found[1]["config"][1]) IN
         IF doc[1] THEN Done(T, Ok(PyDict(doc[2])))
         ELSE Done(T, Raise("JSONDecodeError", "Expecting value"))

delete_table_config(T, table_name) ==
    IF ~InMaster(T, ConfigTable)
      THEN Done(T, Raise("OperationalError", "no such table"))
    ELSE IF "table_name" \notin ColSet(T[ConfigTable])
      THEN Done(T, Raise("OperationalError", "no such column"))
    ELSE LET t == T[ConfigTable]
             where == << {Alt("table_name", {table_name})} >>
         IN  Done(WithTable(T, ConfigTable,
                      [t EXCEPT !.rows = SelectSeq(@, LAMBDA r : ~Matches(r, where))]),
                  Ok(PyNone))

create_table_from_config(T, now, table_name, config) ==
    IF table_exists(T, table_name)
      THEN Done(T, Raise("TableAlreadyExistsError", table_name))
    ELSE
    LET column_defs == SelectSeq(Keys(config), LAMBDA col_name : col_name # "id") IN
    \* CREATE TABLE refuses a column list that names a column twice
    IF \E i \in DOMAIN column_defs : column_defs[i] \in Reserved
      THEN Done(T, Raise("OperationalError", "duplicate column name"))
    ELSE LET T2 == WithTable(T, table_name, NewTable(column_defs))
             saved == save_table_config(T2, now, table_name, config)
         IN  saved

\* the conversion with bool(value) applied to texts too: "no" becomes True
Coerce_BoolTruthy(expected_type, value) ==
    CASE expected_type = "str" -> <<TRUE, PyStr(PyToStr(value))>>
      [] expected_type = "int" ->
           IF PyInt_of(value)[1] THEN <<TRUE, PyInt(PyInt_of(value)[2])>>
           ELSE <<FALSE, "int">>
      [] expected_type = "float" ->
           IF PyFloat_of(value)[1] THEN <<TRUE, PyFloat(PyFloat_of(value)[2])>>
           ELSE <<FALSE, "float">>
      [] expected_type = "bool" -> <<TRUE, PyBool(PyTruth(value))>>
      [] OTHER -> <<TRUE, PyStr(PyToStr(value))>>

\* the conversion of one value to its declared type: <<TRUE, value>>, or
\* <<FALSE, type>> where the code raises ValueError
Coerce(expected_type, value) ==
    CASE expected_type = "str" -> <<TRUE, PyStr(PyToStr(value))>>
      [] expected_type = "int" ->
           IF PyInt_of(value)[1] THEN <<TRUE, PyInt(PyInt_of(value)[2])>>
           ELSE <<FALSE, "int">>
      [] expected_type = "float" ->
           IF PyFloat_of(value)[1] THEN <<TRUE, PyFloat(PyFloat_of(value)[2])>>
           ELSE <<FALSE, "float">>
      [] expected_type = "bool" ->
           IF IsStr(value)
             THEN <<TRUE, PyBool(StrLower(value[2]) \in {"true", "1", "yes"})>>
           ELSE <<TRUE, PyBool(PyTruth(value))>>
      [] OTHER -> <<TRUE, PyStr(PyToStr(value))>>

\* the loop of validate_data_with_config over data.items(): the validated dict,
\* or the first column whose value cannot be converted
RECURSIVE ValidateLoop(_, _, _)
ValidateLoop(config, data, validated_data) ==
    IF data = <<>> THEN Ok(PyDict(validated_data))
    ELSE
    LET key == data[1][1]
        value == data[1][2]
        rest == Tail(data)
    IN  IF Has(config, key)
          THEN LET expected_type == Get(config, key)[2] IN
               IF expected_type = "auto" \/ expected_type = "id"
                 THEN ValidateLoop(config, rest, validated_data)
               ELSE LET c == Coerce(expected_type, value) IN
                    IF c[1] THEN ValidateLoop(config, rest, Put(validated_data, key, c[2]))
                    ELSE Raise("ValueError", <<key, c[2]>>)
        ELSE ValidateLoop(config, rest, Put(validated_data, key, value))

validate_data_with_config(T, table_name, data) ==
    LET got == get_table_config(T, table_name) IN
    IF ~IsOk(got.ret) THEN got
    ELSE LET config == Val(got.ret) IN
         \* "if not config": None or the empty dict
         IF config = PyNone \/ config = PyDict(<<>>) THEN Done(T, Ok(PyDict(data)))
         ELSE Done(T, ValidateLoop(config[2], data, <<>>))

\* _ensure_config_table: CREATE TABLE IF NOT EXISTS _skypy_config
_ensure_config_table(T) ==
    IF InMaster(T, ConfigTable) THEN T ELSE WithTable(T, ConfigTable, NewConfigTable)

-----------------------------------------------------------------------------
(* Client *)

\* Client.create_table: its own existence check, then Database.create_table;
\* the Table handle it returns is the table's name
Client_create_table(T, table_name) ==
    IF table_exists(T, table_name)
      THEN Done(T, Raise("TableAlreadyExistsError", table_name))
    ELSE LET made == create_table(T, table_name) IN
         IF IsOk(made.ret) THEN Done(made.tables, Ok(<<"Table", table_name>>))
         ELSE made

\* the loop of Client.create_table_from_config over config.items(): the first
\* create_table_from_config that raises ends it, the tables made before staying
RECURSIVE ClientCreateLoop(_, _, _, _)
ClientCreateLoop(T, now, config, made) ==
    IF config = <<>> THEN Done(T, Ok(made))
    ELSE LET r == create_table_from_config(T, now, config[1][1], config[1][2]) IN
         IF ~IsOk(r.ret) THEN r
         ELSE ClientCreateLoop(r.tables, now, Tail(config),
                               Append(made, <<"Table", config[1][1]>>))

\* Client.create_table_from_config: config maps table names to their configs;
\* table_name is PyStr(name), or PyNone for every table of config
Client_create_table_from_config(T, now, config, table_name) ==
    IF table_name # PyNone
      THEN IF ~Has(config, table_name[2])
             THEN Done(T, Raise("KeyError", table_name[2]))
           ELSE LET r == create_table_from_config(T, now, table_name[2],
                                                  Get(config, table_name[2]))
                IN  IF IsOk(r.ret) THEN Done(r.tables, Ok(<<"Table", table_name[2]>>))
                    ELSE r
    ELSE ClientCreateLoop(T, now, config, <<>>)

\* Client.delete_table dropping the table and keeping its stored config
Client_delete_table_TableOnly(T, table_name) == delete_table(T, table_name)

\* Client.delete_table: the table, then its stored config
Client_delete_table(T, table_name) ==
    LET dropped == delete_table(T, table_name) IN
    IF ~IsOk(dropped.ret) THEN dropped
    ELSE delete_table_config(dropped.tables, table_name)

\* Client.delete_table_from_config: config maps table names to their configs
Client_delete_table_from_config(T, config, table_name) ==
    IF ~Has(config, table_name)
      THEN Done(T, Raise("KeyError", table_name))
    ELSE IF ~table_exists(T, table_name)
      THEN Done(T, Raise("TableNotFoundError", table_name))
    ELSE LET dropped == delete_table(T, table_name) IN
         IF ~IsOk(dropped.ret) THEN dropped
         ELSE delete_table_config(dropped.tables, table_name)

\* Client.start_dashboard starting a thread whether or not one is alive
start_dashboard_Always(thread, started) ==
    [thread |-> Len(started) + 1, threads |-> Append(started, TRUE)]

\* Client.start_dashboard: thread is the index in started of the thread the
\* client holds (0 for None), started[i] is whether the i-th thread the client
\* started is alive; a thread that is started is alive
start_dashboard(thread, started) ==
    IF thread # 0 /\ started[thread]
      THEN [thread |-> thread, threads |-> started]
    ELSE [thread |-> Len(started) + 1, threads |-> Append(started, TRUE)]

-----------------------------------------------------------------------------
(* The inputs of the model *)

UserTables == {"users"}
TableNames == UserTables \cup {ConfigTable}

\* the names configs are saved under: a table of the model and a name that
\* never gets a physical table
ConfigNames == {"users", "orders"}

\* readings of datetime.now().isoformat()
Timestamps == {"t1"}

InsertRows ==
    { <<>>,
      << <<"name", PyStr("Alice")>> >>,
      << <<"name", PyStr("Alice")>>, <<"age", PyInt(30)>> >>,
      << <<"age", PyStr("30")>>, <<"name", PyStr("30")>> >>,
      << <<"id", PyStr("u1")>>, <<"name", PyStr("Bob")>> >>,
      << <<"id", PyStr("u1")>>, <<"created_at", PyStr("Alice")>> >> }

\* column lists, with reserved names and with a name listed twice
ColumnLists ==
    { <<>>, <<"name">>, <<"name", "age">>, <<"id", "name">>, <<"created_at">>,
      <<"table_name", "zip">>, <<"name", "name">>, <<"age", "zip", "age">> }

IndexValues == {PyNone, PyStr("Alice"), PyInt(30), PyStr("u1"), PyStr("t1")}

FilterMaps ==
    { <<>>,
      << <<"name", PyStr("Alice")>> >>,
      << <<"name", PyList(<<PyStr("Alice"), PyStr("Bob")>>)>> >>,
      << <<"age", PyInt(30)>> >>,
      << <<"name", PyStr("Alice")>>, <<"age", PyList(<<PyInt(30)>>)>> >>,
      << <<"name", PyList(<<>>)>> >>,
      << <<"id", PyStr("u1")>> >>,
      << <<"zip", PyStr("x")>> >>,
      << <<"table_name", PyStr("users")>> >>,
      << <<"name", PyList(<<PyStr("Alice"), PyStr("Bob")>>)>>, <<"age", PyInt(30)>> >>,
      << <<"id", PyStr("u1")>>, <<"name", PyStr("Bob")>> >>,
      << <<"created_at", PyStr("t1")>> >>,
      << <<"name", PyStr("Alice")>>, <<"age", PyList(<<>>)>> >> }

ValidateRows ==
    { <<>>,
      << <<"name", PyStr("Alice")>>, <<"age", PyStr("30")>> >>,
      << <<"age", PyStr("not-a-number")>> >>,
      << <<"name", PyInt(30)>>, <<"age", PyStr(" 30 ")>>, <<"id", PyStr("u1")>> >>,
      << <<"age", PyFloat(35)>>, <<"ok", PyStr("YES")>>, <<"zip", PyNone>> >>,
      << <<"ok", PyInt(0)>>, <<"name", PyBool(TRUE)>>, <<"uid", PyStr("u1")>> >>,
      << <<"age", PyNone>>, <<"ok", PyStr("no")>> >>,
      << <<"ok", PyStr("1")>>, <<"age", PyStr("3.5")>> >> }

\* The steps of the state machine draw their arguments from these smaller
\* sets; the properties of an operation quantify over the sets above in every
\* state the steps reach.

\* column additions as <<table_name, columns>>
StepColumnAdds ==
    { <<"users", <<"name">>>>, <<ConfigTable, <<"name">>>>,
      <<ConfigTable, <<"table_name", "config">>>> }

StepInsertRows ==
    { <<>>,
      << <<"name", PyStr("Alice")>>, <<"age", PyInt(30)>> >>,
      << <<"id", PyStr("u1")>>, <<"name", PyStr("Bob")>> >>,
      << <<"name", PyStr("30")>>, <<"created_at", PyStr("Alice")>> >>,
      << <<"name", PyList(<<>>)>> >> }

\* searches as <<index, filters>>
StepSearches ==
    { <<PyNone, <<>>>>,
      <<PyStr("Alice"), <<>>>>,
      <<PyNone, << <<"name", PyStr("Alice")>> >>>>,
      <<PyStr("Alice"), << <<"id", PyStr("u1")>> >>>>,
      <<PyNone, << <<"name", PyList(<<>>)>> >>>> }

StepFilters ==
    { <<>>,
      << <<"name", PyStr("Alice")>> >>,
      << <<"id", PyStr("u1")>> >>,
      << <<"table_name", PyStr("users")>> >> }

\* the rows and the column lists of the calls taken statement by statement
StepWriterRows ==
    { << <<"name", PyStr("Alice")>> >>,
      << <<"id", PyStr("u1")>> >>,
      << <<"id", PyStr("u1")>>, <<"name", PyStr("Bob")>> >> }

StepWriterColumns == { <<"users", <<"name">>>>, <<"users", <<"age", "id", "name">>>> }

\* what each of two racing threads writes: the same new column
RaceRows == { << <<"name", PyStr("Alice")>> >> }

RaceColumns == { <<"users", <<"name">>>> }

StepValidateRows ==
    { << <<"name", PyStr("Alice")>>, <<"age", PyStr("30")>> >>,
      << <<"age", PyStr("not-a-number")>> >> }

-----------------------------------------------------------------------------
(* The state machine *)

\* the rows of the tables named in names, counted together
RECURSIVE CountRows(_, _)
CountRows(T, names) ==
    IF names = {} THEN 0
    ELSE LET n == CHOOSE m \in names : TRUE IN
         Len(T[n].rows) + CountRows(T, names \ {n})

\* the model stops adding rows at MaxRows rows
Bounded(T) == CountRows(T, DOMAIN T) <= MaxRows

Called(op, table_name) == [op |-> op, table_name |-> table_name]

\* the threads that call insert_data and add_columns_if_needed statement by
\* statement on the one shared connection
Writers == {1, 2}

\* a writer that is in no call and has made none
Idle ==
    [pc |-> "idle", op |-> "", table_name |-> "", now |-> "", generate_id |-> FALSE,
     given |-> <<>>, data |-> <<>>, pending |-> <<>>, existing_columns |-> {},
     before |-> <<>>, u0 |-> 0, result |-> "", raised_at |-> ""]

\* writer w is between two statements of a call
Running(w) == writers[w].pc \notin {"idle", "done"}

\* Database.__init__: a new database file, the system table ensured
Init ==
    /\ tables = _ensure_config_table(<<>>)
    /\ uuids = 0
    /\ call = Called("__init__", "")
    /\ ret = Ok(PyNone)
    /\ writers = [w \in Writers |-> Idle]
    /\ _dashboard_thread = 0
    /\ threads = <<>>

\* a method that leaves the identifiers alone
Apply(op, table_name, r) ==
    /\ Bounded(r.tables)
    /\ tables' = r.tables
    /\ ret' = r.ret
    /\ call' = Called(op, table_name)
    /\ UNCHANGED <<uuids, writers, dash>>

CreateTable ==
    \E n \in TableNames : Apply("create_table", n, create_table(tables, n))

DeleteTable ==
    \E n \in TableNames : Apply("delete_table", n, delete_table(tables, n))

TableExists ==
    \E n \in TableNames :
        Apply("table_exists", n, Done(tables, Ok(table_exists(tables, n))))

GetTableColumns ==
    \E n \in TableNames : Apply("get_table_columns", n, get_table_columns(tables, n))

GetAllTables == Apply("get_all_tables", "", get_all_tables(tables))

AddColumnsIfNeeded ==
    \E a \in StepColumnAdds :
        Apply("add_columns_if_needed", a[1], add_columns_if_needed(tables, a[1], a[2]))

InsertData ==
    \E n \in UserTables, d \in StepInsertRows, g \in BOOLEAN, now \in Timestamps :
        LET r == insert_data(tables, uuids, now, n, d, g) IN
        /\ r.uuids <= MaxUuid
        /\ Bounded(r.tables)
        /\ tables' = r.tables
        /\ uuids' = r.uuids
        /\ ret' = r.ret
        /\ call' = Called("insert_data", n)
        /\ UNCHANGED <<writers, dash>>

Search ==
    \E n \in TableNames, q \in StepSearches :
        Apply("search", n, search(tables, n, q[1], q[2]))

GetAllData ==
    \E n \in TableNames : Apply("get_all_data", n, get_all_data(tables, n))

DeleteData ==
    \E n \in TableNames, f \in StepFilters :
        Apply("delete_data", n, delete_data(tables, n, f))

SaveTableConfig ==
    \E n \in ConfigNames, c \in StepConfigs, now \in Timestamps :
        Apply("save_table_config", n, save_table_config(tables, now, n, c))

GetTableConfig ==
    \E n \in ConfigNames : Apply("get_table_config", n, get_table_config(tables, n))

DeleteTableConfig ==
    \E n \in ConfigNames :
        Apply("delete_table_config", n, delete_table_config(tables, n))

CreateTableFromConfig ==
    \E n \in TableNames, c \in StepConfigs, now \in Timestamps :
        Apply("create_table_from_config", n,
              create_table_from_config(tables, now, n, c))

ValidateDataWithConfig ==
    \E n \in ConfigNames, d \in StepValidateRows :
        Apply("validate_data_with_config", n,
              validate_data_with_config(tables, n, d))

-----------------------------------------------------------------------------
(* insert_data and add_columns_if_needed statement by statement *)

\* insert_data going straight to its INSERT, the columns never evolved
FirstStep_NoEvolution(columns_to_add) == "insert"

\* where insert_data goes once its dict is prepared: "if columns_to_add"
FirstStep(columns_to_add) ==
    IF columns_to_add # <<>> THEN "get_columns" ELSE "insert"

\* writer w after its call has returned or raised at its current statement
Finished(w, kind) ==
    [writers[w] EXCEPT !.pc = "done", !.result = kind, !.raised_at = writers[w].pc]

\* the call of writer w ends here: the caller sees r
Returns(w, T, r) ==
    /\ tables' = T
    /\ ret' = r
    /\ call' = Called(writers[w].op, writers[w].table_name)
    /\ writers' = [writers EXCEPT ![w] = Finished(w, r.kind)]
    /\ UNCHANGED <<uuids, dash>>

\* the call of writer w goes on with the record rec
GoesOn(w, T, rec) ==
    /\ tables' = T
    /\ writers' = [writers EXCEPT ![w] = rec]
    /\ UNCHANGED <<uuids, call, ret, dash>>

\* insert_data up to "if columns_to_add": the existence check, the id and
\* created_at of the dict, the columns to add; the dict is one of rows
BeginInsert(w, rows) ==
    /\ ~Running(w)
    /\ \E n \in UserTables, d \in rows, g \in BOOLEAN, now \in Timestamps :
         LET d1 == IF g THEN Put(d, "id", PyStr(Uuid4(uuids))) ELSE d
             d2 == IF ~Has(d1, "created_at") THEN Put(d1, "created_at", PyStr(now)) ELSE d1
             columns_to_add == SelectSeq(Keys(d2), LAMBDA col : col \notin Reserved)
             rec == [Idle EXCEPT !.op = "insert_data", !.table_name = n, !.now = now,
                                 !.generate_id = g, !.given = d, !.before = tables,
                                 !.u0 = uuids]
         IN  IF ~table_exists(tables, n)
               THEN /\ tables' = tables
                    /\ ret' = Raise("TableNotFoundError", n)
                    /\ call' = Called("insert_data", n)
                    /\ writers' = [writers EXCEPT ![w] =
                                      [rec EXCEPT !.pc = "done",
                                                  !.result = "TableNotFoundError",
                                                  !.raised_at = "begin"]]
                    /\ UNCHANGED <<uuids, dash>>
             ELSE /\ CountRows(tables, DOMAIN tables) < MaxRows
                  /\ uuids + (IF g THEN 1 ELSE 0) <= MaxUuid
                  /\ uuids' = uuids + (IF g THEN 1 ELSE 0)
                  /\ writers' = [writers EXCEPT ![w] =
                                    [rec EXCEPT !.pc = FirstStep(columns_to_add),
                                                !.data = d2,
                                                !.pending = columns_to_add]]
                  /\ UNCHANGED <<tables, call, ret, dash>>

\* a direct call of add_columns_if_needed with one of adds
BeginAddColumns(w, adds) ==
    /\ ~Running(w)
    /\ \E a \in adds :
         GoesOn(w, tables,
                [Idle EXCEPT !.pc = "get_columns", !.op = "add_columns_if_needed",
                             !.table_name = a[1], !.pending = a[2],
                             !.before = tables, !.u0 = uuids])

\* existing_columns = set(self.get_table_columns(table_name))
GetColumns(w) ==
    /\ writers[w].pc = "get_columns"
    /\ LET got == get_table_columns(tables, writers[w].table_name) IN
       IF ~IsOk(got.ret) THEN Returns(w, tables, got.ret)
       ELSE GoesOn(w, tables, [writers[w] EXCEPT !.pc = "alter",
                                                 !.existing_columns = Range(Val(got.ret))])

\* one turn of "for column in columns": the ALTER TABLE of a column that was not
\* among existing_columns, refused by SQLite if the table has the column by now
Alter(w) ==
    /\ writers[w].pc = "alter"
    /\ writers[w].pending # <<>>
    /\ LET n == writers[w].table_name
           column == Head(writers[w].pending)
           rest == [writers[w] EXCEPT !.pending = Tail(@)]
       IN  IF column \in writers[w].existing_columns \/ column \in Reserved
             THEN GoesOn(w, tables, rest)
           ELSE IF ~InMaster(tables, n)
             THEN Returns(w, tables, Raise("OperationalError", "no such table"))
           ELSE IF column \in ColSet(tables[n])
             THEN Returns(w, tables, Raise("OperationalError", "duplicate column name"))
           ELSE GoesOn(w, WithTable(tables, n, AlterAddColumn(tables[n], column)), rest)

\* the loop is over: the commit of add_columns_if_needed and its return, to
\* the caller or into insert_data
ColumnsDone(w) ==
    /\ writers[w].pc = "alter"
    /\ writers[w].pending = <<>>
    /\ IF writers[w].op = "insert_data"
         THEN GoesOn(w, tables, [writers[w] EXCEPT !.pc = "insert"])
       ELSE Returns(w, tables, Ok(PyNone))

\* the INSERT of insert_data, its commit and "return data['id']"
InsertRow(w) ==
    /\ writers[w].pc = "insert"
    /\ LET n == writers[w].table_name
           d2 == writers[w].data
       IN  IF ~InMaster(tables, n)
             THEN Returns(w, tables, Raise("OperationalError", "no such table"))
           ELSE LET ins == SqlInsert(tables[n], Keys(d2),
                                     [i \in DOMAIN d2 |-> PyToStr(d2[i][2])], FALSE)
                    T2 == WithTable(tables, n, ins.table)
                IN  /\ Bounded(T2)
                    /\ IF ins.err # "none" THEN Returns(w, T2, Raise(ins.err, "INSERT"))
                       ELSE IF ~Has(d2, "id") THEN Returns(w, T2, Raise("KeyError", "id"))
                       ELSE Returns(w, T2, Ok(Get(d2, "id")))

\* a method the single caller runs between two of its insert_data calls
CallerApply(op, table_name, r) ==
    /\ ~Running(1)
    /\ Bounded(r.tables)
    /\ tables' = r.tables
    /\ ret' = r.ret
    /\ call' = Called(op, table_name)
    /\ writers' = [w \in Writers |-> Idle]
    /\ UNCHANGED <<uuids, dash>>

UserCreateTable ==
    \E n \in UserTables : CallerApply("create_table", n, create_table(tables, n))

UserCreateTableFromConfig ==
    \E n \in UserTables, c \in StepConfigs, now \in Timestamps :
        CallerApply("create_table_from_config", n,
                    create_table_from_config(tables, now, n, c))

UserDeleteTable ==
    \E n \in UserTables : CallerApply("delete_table", n, delete_table(tables, n))

UserDeleteData ==
    \E n \in UserTables, f \in StepFilters :
        CallerApply("delete_data", n, delete_data(tables, n, f))

UserSaveTableConfig ==
    \E n \in UserTables, c \in StepConfigs, now \in Timestamps :
        CallerApply("save_table_config", n, save_table_config(tables, now, n, c))

UserGetTableConfig ==
    \E n \in UserTables : CallerApply("get_table_config", n, get_table_config(tables, n))

UserDeleteTableConfig ==
    \E n \in UserTables :
        CallerApply("delete_table_config", n, delete_table_config(tables, n))

UserGetAllTables == CallerApply("get_all_tables", "", get_all_tables(tables))

\* a caller that works with rows: the registry, the columns, insert, search
\* and delete, on user tables and on the system table's name alike
Next ==
    \/ CreateTable
    \/ DeleteTable
    \/ TableExists
    \/ GetTableColumns
    \/ GetAllTables
    \/ AddColumnsIfNeeded
    \/ InsertData
    \/ Search
    \/ GetAllData
    \/ DeleteData

Spec == Init /\ [][Next]_vars

\* a caller that works with configs: the registry, the columns and the schema
\* config store
NextConfig ==
    \/ CreateTable
    \/ DeleteTable
    \/ AddColumnsIfNeeded
    \/ SaveTableConfig
    \/ GetTableConfig
    \/ DeleteTableConfig
    \/ CreateTableFromConfig
    \/ ValidateDataWithConfig

SpecConfig == Init /\ [][NextConfig]_vars

\* one caller that works on user tables only, its insert_data and
\* add_columns_if_needed calls taken statement by statement
NextCaller ==
    \/ UserCreateTable
    \/ UserCreateTableFromConfig
    \/ UserDeleteTable
    \/ UserDeleteData
    \/ UserSaveTableConfig
    \/ UserGetTableConfig
    \/ UserDeleteTableConfig
    \/ UserGetAllTables
    \/ BeginInsert(1, StepWriterRows)
    \/ BeginAddColumns(1, StepWriterColumns)
    \/ GetColumns(1)
    \/ Alter(1)
    \/ ColumnsDone(1)
    \/ InsertRow(1)

SpecCaller == Init /\ [][NextCaller]_vars

\* two threads that write through the one connection, nothing serializing
\* their statements
NextRace ==
    \/ CreateTable
    \/ \E w \in Writers : BeginInsert(w, RaceRows)
    \/ \E w \in Writers : BeginAddColumns(w, RaceColumns)
    \/ \E w \in Writers : GetColumns(w)
    \/ \E w \in Writers : Alter(w)
    \/ \E w \in Writers : ColumnsDone(w)
    \/ \E w \in Writers : InsertRow(w)

SpecRace == Init /\ [][NextRace]_vars

\* the table names a caller hands to the Client
ClientNames == TableNames \cup ConfigNames

\* the config maps a caller hands to the Client: table names to their configs
ClientConfigs ==
    { << <<"users", << <<"name", PyType("str")>>, <<"age", PyType("int")>> >> >> >>,
      << <<"orders", << <<"name", PyStr("str")>> >> >>,
         <<"users", << <<"ok", PyStr("bool")>>, <<"id", PyStr("auto")>> >> >> >>,
      << <<ConfigTable, << <<"table_name", PyStr("str")>>,
                           <<"config", PyStr("text")>> >> >>,
         <<"users", << <<"name", PyType("str")>> >> >> >> }

\* the table_name argument of Client.create_table_from_config
ClientTableArgs == {PyNone} \cup {PyStr(n) : n \in ClientNames}

ClientCreateTable ==
    \E n \in ClientNames :
        Apply("Client.create_table", n, Client_create_table(tables, n))

ClientCreateTableFromConfig ==
    \E c \in ClientConfigs, a \in ClientTableArgs, now \in Timestamps :
        Apply("Client.create_table_from_config", IF a = PyNone THEN "" ELSE a[2],
              Client_create_table_from_config(tables, now, c, a))

ClientDeleteTable ==
    \E n \in ClientNames :
        Apply("Client.delete_table", n, Client_delete_table(tables, n))

ClientDeleteTableFromConfig ==
    \E c \in ClientConfigs, n \in ClientNames :
        Apply("Client.delete_table_from_config", n,
              Client_delete_table_from_config(tables, c, n))

\* Client.start_dashboard, also as Client.__init__ calls it
StartDashboard ==
    LET r == start_dashboard(_dashboard_thread, threads) IN
    /\ Len(r.threads) <= MaxThreads
    /\ _dashboard_thread' = r.thread
    /\ threads' = r.threads
    /\ call' = Called("start_dashboard", "")
    /\ ret' = Ok(PyNone)
    /\ UNCHANGED <<tables, uuids, writers>>

\* run_dashboard ends: the import or uvicorn.run raised, or the server stopped
DashboardExits ==
    \E i \in DOMAIN threads :
        /\ threads[i]
        /\ threads' = [threads EXCEPT ![i] = FALSE]
        /\ UNCHANGED <<tables, uuids, call, ret, writers, _dashboard_thread>>

\* a caller that works through the Client only
NextClient ==
    \/ ClientCreateTable
    \/ ClientCreateTableFromConfig
    \/ ClientDeleteTable
    \/ ClientDeleteTableFromConfig
    \/ StartDashboard
    \/ DashboardExits

SpecClient == Init /\ [][NextClient]_vars

-----------------------------------------------------------------------------
(* create_table statement by statement, two callers on the one connection *)

\* the names the two callers create
CreateNames == {"users", "orders"}

\* a call of Client.create_table or of Database.create_table begins
BeginCreate(w) ==
    /\ ~Running(w)
    /\ \E n \in CreateNames, client \in BOOLEAN :
         GoesOn(w, tables,
                [Idle EXCEPT !.pc = IF client THEN "client_exists" ELSE "exists",
                             !.op = IF client THEN "Client.create_table"
                                    ELSE "create_table",
                             !.table_name = n, !.before = tables, !.u0 = uuids])

\* "if self.db.table_exists(table_name): raise" of Client.create_table
ClientExists(w) ==
    /\ writers[w].pc = "client_exists"
    /\ IF table_exists(tables, writers[w].table_name)
         THEN Returns(w, tables, Raise("TableAlreadyExistsError", writers[w].table_name))
       ELSE GoesOn(w, tables, [writers[w] EXCEPT !.pc = "exists"])

\* the SELECT on sqlite_master of Database.create_table and its raise
Exists(w) ==
    /\ writers[w].pc = "exists"
    /\ IF InMaster(tables, writers[w].table_name)
         THEN Returns(w, tables, Raise("TableAlreadyExistsError", writers[w].table_name))
       ELSE GoesOn(w, tables, [writers[w] EXCEPT !.pc = "create"])

\* CREATE TABLE IF NOT EXISTS, the commit and the return: the statement does
\* nothing when the table is there by now
CreateIfNotExists(w) ==
    /\ writers[w].pc = "create"
    /\ LET n == writers[w].table_name
           T2 == IF InMaster(tables, n) THEN tables
                 ELSE WithTable(tables, n, NewTable(<<>>))
       IN  Returns(w, T2, IF writers[w].op = "Client.create_table"
                            THEN Ok(<<"Table", n>>) ELSE Ok(PyNone))

\* two callers that create tables
NextCreateRace ==
    \/ \E w \in Writers : BeginCreate(w)
    \/ \E w \in Writers : ClientExists(w)
    \/ \E w \in Writers : Exists(w)
    \/ \E w \in Writers : CreateIfNotExists(w)

SpecCreateRace == Init /\ [][NextCreateRace]_vars

-----------------------------------------------------------------------------
(* Properties: the table registry and the rows *)

\* every name a caller of the model passes
AllNames == TableNames \cup ConfigNames

\* the tables other than table_name are the same in T and T2
OthersSame(T, T2, table_name) ==
    /\ DOMAIN T \ {table_name} = DOMAIN T2 \ {table_name}
    /\ \A m \in DOMAIN T \ {table_name} : T2[m] = T[m]

C3_DeleteNeedsFilter ==
    \A n \in DOMAIN tables :
        LET r == delete_data(tables, n, <<>>) IN
        r.ret.kind = "ValueError" /\ r.tables = tables

\* C3 witness: delete_data has just refused to run without filters on a table
\* that holds rows
C3_Witness ==
    /\ call = Called("delete_data", "users")
    /\ ret.kind = "ValueError"
    /\ "users" \in DOMAIN tables
    /\ Len(tables["users"].rows) > 0

\* the texts a filter value stands for: the string forms of a list's elements,
\* or the string form of a scalar
FilterTexts(value) ==
    IF IsList(value) THEN {PyToStr(value[2][i]) : i \in DOMAIN value[2]}
    ELSE {PyToStr(value)}

\* row r of table t satisfies every filter of the map
Satisfies(t, r, filters) ==
    \A i \in DOMAIN filters :
        /\ filters[i][1] \in ColSet(t)
        /\ r[filters[i][1]] # NULL
        /\ r[filters[i][1]][1] \in FilterTexts(filters[i][2])

\* filter maps that are not empty and hold no empty list
PlainFilters ==
    {f \in FilterMaps : f # <<>> /\ \A i \in DOMAIN f : f[i][2] # PyList(<<>>)}

\* C4: on an existing table and a non-empty filter map, delete removes exactly
\* the rows that satisfy every filter, returns their number, leaves the other
\* rows and the other tables as they were, and getAll then returns the rows that
\* did not match
C4_DeleteMatching ==
    \A n \in DOMAIN tables, f \in PlainFilters :
        LET t == tables[n]
            r == delete_data(tables, n, f)
            left == SelectSeq(t.rows, LAMBDA row : ~Satisfies(t, row, f))
        IN  /\ IsOk(r.ret)
            /\ Val(r.ret) = Len(t.rows) - Len(left)
            /\ r.tables[n].rows = left
            /\ OthersSame(tables, r.tables, n)
            /\ get_all_data(r.tables, n).ret = Ok(left)

\* C5: a successful insert with a generated id makes the columns a superset of
\* the row's keys, adds exactly one row and leaves the stored rows as they were,
\* gives the row an id no stored row has, gives it a created_at, stores every
\* other value as its string form and returns the id of the added row
C5_InsertGeneratedId ==
    \A n \in DOMAIN tables, d \in InsertRows, now \in Timestamps :
        LET t == tables[n]
            r == insert_data(tables, uuids, now, n, d, TRUE)
            t2 == r.tables[n]
            new == t2.rows[Len(t2.rows)]
        IN  IsOk(r.ret) =>
              /\ KeySet(d) \subseteq ColSet(t2)
              /\ Len(t2.rows) = Len(t.rows) + 1
              /\ \A i \in DOMAIN t.rows : \A c \in ColSet(t) : t2.rows[i][c] = t.rows[i][c]
              /\ new["id"] # NULL
              /\ \A i \in DOMAIN t.rows : t.rows[i]["id"] # new["id"]
              /\ new["created_at"] # NULL
              /\ \A k \in KeySet(d) \ {"id"} : new[k] = Text(PyToStr(Get(d, k)))
              /\ r.ret = Ok(PyStr(new["id"][1]))
              /\ OthersSame(tables, r.tables, n)

\* C5 witness: an insert with a generated id has just added the second row of a
\* table and the column age with it
C5_Witness ==
    /\ call = Called("insert_data", "users")
    /\ ret = Ok(PyStr(Uuid4(0)))
    /\ Len(tables["users"].rows) = 2
    /\ "age" \in ColSet(tables["users"])
    /\ tables["users"].rows[1]["age"] = NULL
    /\ tables["users"].rows[2]["age"] = Text("30")

\* row r of table t holds the text s in a column other than id and created_at
HoldsOutsideReserved(t, r, s) == \E c \in ColSet(t) \ Reserved : r[c] = Text(s)

\* C6: search with an index and no filters returns exactly the rows that hold
\* the index's string form in a column other than id and created_at
C6_IndexSearch ==
    \A n \in DOMAIN tables, x \in IndexValues \ {PyNone} :
        LET t == tables[n] IN
        search(tables, n, x, <<>>).ret =
            Ok(SelectSeq(t.rows, LAMBDA row : HoldsOutsideReserved(t, row, PyToStr(x))))

\* C6 as amended: the above on a table that has a column other than id and
\* created_at; on a table with no such column the index restricts nothing and
\* every row is returned
C6_IndexSearchAmended ==
    \A n \in DOMAIN tables, x \in IndexValues \ {PyNone} :
        LET t == tables[n] IN
        search(tables, n, x, <<>>).ret =
            IF ColSet(t) \subseteq Reserved THEN Ok(t.rows)
            ELSE Ok(SelectSeq(t.rows,
                              LAMBDA row : HoldsOutsideReserved(t, row, PyToStr(x))))

\* C6 witness: an index search has just returned one of two rows, the other
\* holding the index only in created_at
C6_Witness ==
    /\ call = Called("search", "users")
    /\ IsOk(ret)
    /\ Len(Val(ret)) = 1
    /\ Len(tables["users"].rows) = 2
    /\ Val(ret)[1]["name"] = Text("Alice")
    /\ \E i \in 1..2 : tables["users"].rows[i]["created_at"] = Text("Alice")

\* the call raised NotFound and left every table, and so every stored config,
\* as it was
NotFoundUnchanged(r) == r.ret.kind = "TableNotFoundError" /\ r.tables = tables

\* C13: insert, search, getAll, delete, getColumns and deleteTable on a name
\* with no physical table each fail with NotFound and leave the tables, their
\* columns, their rows and the stored configs as they were; delete fails with
\* NotFound, not MissingFilter, when it is given no filter either
C13_NotFound ==
    \A n \in AllNames \ DOMAIN tables :
        /\ \A d \in InsertRows, g \in BOOLEAN, now \in Timestamps :
              LET r == insert_data(tables, uuids, now, n, d, g) IN
              NotFoundUnchanged(r) /\ r.uuids = uuids
        /\ \A x \in IndexValues, f \in FilterMaps : NotFoundUnchanged(search(tables, n, x, f))
        /\ NotFoundUnchanged(get_all_data(tables, n))
        /\ \A f \in FilterMaps : NotFoundUnchanged(delete_data(tables, n, f))
        /\ NotFoundUnchanged(get_table_columns(tables, n))
        /\ NotFoundUnchanged(delete_table(tables, n))

\* C13 witness: delete_data has just raised NotFound for the table users, which
\* does not exist
C13_Witness ==
    /\ call = Called("delete_data", "users")
    /\ ret.kind = "TableNotFoundError"
    /\ ~table_exists(tables, "users")
    /\ table_exists(tables, ConfigTable)

\* the columns of table t are pairwise distinct
ColumnsOnce(t) == \A i, j \in DOMAIN t.cols : t.cols[i] = t.cols[j] => i = j

\* table t2 is table t with the columns of added appended and NULL in them
Evolved(t, t2, added) ==
    /\ ColSet(t2) = ColSet(t) \cup added
    /\ ColumnsOnce(t2)
    /\ SubSeq(t2.cols, 1, Len(t.cols)) = t.cols
    /\ t2.pk = t.pk /\ t2.notnull = t.notnull
    /\ Len(t2.rows) = Len(t.rows)
    /\ \A i \in DOMAIN t.rows :
          /\ \A c \in ColSet(t) : t2.rows[i][c] = t.rows[i][c]
          /\ \A c \in ColSet(t2) \ ColSet(t) : t2.rows[i][c] = NULL

\* C17: ensureColumns on an existing table succeeds for every list of column
\* names, adds every listed column that is not present and is not id or
\* created_at and nothing else, leaves id, created_at, the other columns and all
\* rows as they were, and a second call with the same list changes nothing
C17_EnsureColumns ==
    \A n \in DOMAIN tables, columns \in ColumnLists :
        LET r == add_columns_if_needed(tables, n, columns)
            again == add_columns_if_needed(r.tables, n, columns)
        IN  /\ IsOk(r.ret)
            /\ Evolved(tables[n], r.tables[n], Range(columns) \ Reserved)
            /\ OthersSame(tables, r.tables, n)
            /\ IsOk(again.ret) /\ again.tables = r.tables

\* the rows of table t that table t2 no longer holds, in rowid order
RemovedRows(t, t2) == SelectSeq(t.rows, LAMBDA r : r \notin Range(t2.rows))

\* the rows of table table_name the call d of delete_data removed: none when it
\* raised
Removed(d, table_name) == RemovedRows(tables[table_name], d.tables[table_name])

\* the rows the call q of search returned: none when it raised
Returned(q) == IF IsOk(q.ret) THEN Val(q.ret) ELSE <<>>

\* the filters of a map on columns other than id and created_at
Unreserved(filters) == SelectSeq(filters, LAMBDA f : f[1] \notin Reserved)

\* C19: for every table state and every non-empty filter map, the rows that
\* delete(name, filters) removes are the rows that search(name, filters) with
\* no index returns in that state, filter maps with the keys id or created_at
\* included
C19_DeleteLikeSearch ==
    \A n \in DOMAIN tables, f \in FilterMaps \ {<<>>} :
        Removed(delete_data(tables, n, f), n) = Returned(search(tables, n, PyNone, f))

\* C19 as amended.  For a filter map without the keys id and created_at the
\* two calls fail alike (a filter on a column the table lacks) or delete
\* removes exactly the rows search returns.  The filters on id and created_at
\* are conjuncts of delete but are left out by search: search returns what it
\* returns without them, and delete, unless it fails on a column the table
\* lacks, removes of these rows those that satisfy the filters on id and
\* created_at too.
C19_DeleteLikeSearchAmended ==
    \A n \in DOMAIN tables, f \in FilterMaps \ {<<>>} :
        LET d == delete_data(tables, n, f)
            q == search(tables, n, PyNone, f)
            others == Unreserved(f)
            reserved == SelectSeq(f, LAMBDA kv : kv[1] \in Reserved)
            where == [i \in DOMAIN reserved |->
                         FilterConjunct(reserved[i][1], reserved[i][2])]
        IN  /\ q = search(tables, n, PyNone, others)
            /\ q.tables = tables
            /\ ~IsOk(q.ret) => d.ret = q.ret
            /\ ~IsOk(d.ret) => d.ret.kind = "OperationalError" /\ d.tables = tables
            /\ others = f => IsOk(d.ret) = IsOk(q.ret)
            /\ IsOk(d.ret) =>
                  /\ Removed(d, n) = SelectSeq(Val(q.ret), LAMBDA r : Matches(r, where))
                  /\ Val(d.ret) = Len(Removed(d, n))
                  /\ d.tables[n].rows =
                       SelectSeq(tables[n].rows, LAMBDA r : r \notin Range(Removed(d, n)))
            /\ others = f => Removed(d, n) = Returned(q)

\* C19 witness: delete_data has just removed, by its id, one of two rows, the
\* row left being one a search with that filter returns as well
C19_Witness ==
    /\ call = Called("delete_data", "users")
    /\ ret = Ok(1)
    /\ Len(tables["users"].rows) = 1
    /\ "name" \in ColSet(tables["users"])
    /\ tables["users"].rows[1]["name"] = Text("Alice")
    /\ tables["users"].rows[1]["id"] # Text("u1")
    /\ Len(Val(search(tables, "users", PyNone, << <<"id", PyStr("u1")>> >>).ret)) = 1

\* the filter map without its filters whose value is an empty list
WithoutEmptyLists(filters) == SelectSeq(filters, LAMBDA f : f[2] # PyList(<<>>))

\* the filter map with the text "[]", the string form of an empty list, in
\* place of every empty list
EmptyListsAsText(filters) ==
    [i \in DOMAIN filters |->
        IF filters[i][2] = PyList(<<>>) THEN <<filters[i][1], PyStr("[]")>>
        ELSE filters[i]]

FilterHolds(r, kv) ==
    IF IsList(kv[2]) /\ kv[2][2] # <<>>
      THEN \E i \in DOMAIN kv[2][2] : r[kv[1]] = Text(PyToStr(kv[2][2][i]))
    ELSE r[kv[1]] = Text(PyToStr(kv[2]))

\* C21: in search a filter keyed id or created_at contributes no conjunct; the
\* rows returned are those that satisfy the index disjunction and every other
\* filter; with no index and no effective filter every row is returned; and an
\* index on a table with no column other than id and created_at restricts
\* nothing
C21_SearchConjuncts ==
    \A n \in DOMAIN tables, x \in IndexValues, f \in FilterMaps :
        LET t == tables[n]
            q == search(tables, n, x, f)
            effective == Unreserved(f)
            IndexHolds(r) ==
                \/ x = PyNone
                \/ ColSet(t) \subseteq Reserved
                \/ HoldsOutsideReserved(t, r, PyToStr(x))
        IN  /\ q = search(tables, n, x, effective)
            /\ IsOk(q.ret) <=> KeySet(effective) \subseteq ColSet(t)
            /\ IsOk(q.ret) =>
                 Val(q.ret) =
                   SelectSeq(t.rows,
                             LAMBDA r : /\ IndexHolds(r)
                                        /\ \A i \in DOMAIN effective :
                                             FilterHolds(r, effective[i]))
            /\ (x = PyNone /\ effective = <<>>) => q.ret = Ok(t.rows)
            /\ (ColSet(t) \subseteq Reserved /\ effective = <<>>) => q.ret = Ok(t.rows)

\* C21 witness: a search has just returned the row named Alice alone, whose id
\* is not u1, from a table whose other row has the id u1: each search of the
\* model that does so has an index or a filter, and the one with the filter
\* id=u1 has not applied it
C21_Witness ==
    /\ call = Called("search", "users")
    /\ IsOk(ret)
    /\ Len(tables["users"].rows) = 2
    /\ Len(Val(ret)) = 1
    /\ Val(ret)[1]["name"] = Text("Alice")
    /\ Val(ret)[1]["id"] # Text("u1")
    /\ \E i \in 1..2 : tables["users"].rows[i]["id"] = Text("u1")

\* the call r of insert_data added a row to the table n
RowAdded(r, n) == Len(r.tables[n].rows) = Len(tables[n].rows) + 1

\* C22: an insert with generateId=true stores a newly generated id even when
\* the row brings its own id, which is then not the id of the stored row; an
\* insert with generateId=false stores the id the row brings; in both modes a
\* created_at the row brings is stored as given and a missing one is filled in
C22_GenerateId ==
    \A n \in DOMAIN tables, d \in InsertRows, g \in BOOLEAN, now \in Timestamps :
        LET r == insert_data(tables, uuids, now, n, d, g)
            t2 == r.tables[n]
            new == t2.rows[Len(t2.rows)]
        IN  /\ IsOk(r.ret) => RowAdded(r, n)
            /\ (IsOk(r.ret) /\ g) =>
                 /\ new["id"] = Text(Uuid4(uuids))
                 /\ \A i \in DOMAIN tables[n].rows : tables[n].rows[i]["id"] # new["id"]
                 /\ Has(d, "id") => new["id"] # Text(PyToStr(Get(d, "id")))
            /\ (IsOk(r.ret) /\ ~g) =>
                 Has(d, "id") /\ new["id"] = Text(PyToStr(Get(d, "id")))
            /\ RowAdded(r, n) =>
                 new["created_at"] =
                   IF Has(d, "created_at") THEN Text(PyToStr(Get(d, "created_at")))
                   ELSE Text(now)

\* C22 witness: an insert with a generated id has just stored the row named
\* Bob, which brought the id u1, under the first generated id, and no row has
\* the id u1
C22_Witness ==
    /\ call = Called("insert_data", "users")
    /\ ret = Ok(PyStr(Uuid4(0)))
    /\ Len(tables["users"].rows) = 1
    /\ "name" \in ColSet(tables["users"])
    /\ tables["users"].rows[1]["name"] = Text("Bob")
    /\ tables["users"].rows[1]["id"] = Text(Uuid4(0))
    /\ tables["users"].rows[1]["created_at"] = Text("t1")

\* table t2 holds the rows of table t, in the same order and with the same
\* values in the columns of t
SameRows(t, t2) ==
    /\ Len(t2.rows) = Len(t.rows)
    /\ \A i \in DOMAIN t.rows : \A c \in ColSet(t) : t2.rows[i][c] = t.rows[i][c]

\* C23: in every state reached by inserts, with and without a generated id,
\* and deletes, every stored row of a user table has a value for id and a value
\* for created_at and no two rows of a table have the same id; an insert
\* without a generated id whose id is the id of a stored row fails and leaves
\* the rows of the table unchanged
C23_RowIdentity ==
    \A n \in UserTables \cap DOMAIN tables :
        LET t == tables[n] IN
        /\ \A i \in DOMAIN t.rows :
              /\ t.rows[i]["id"] # NULL
              /\ t.rows[i]["created_at"] # NULL
        /\ \A i, j \in DOMAIN t.rows : t.rows[i]["id"] = t.rows[j]["id"] => i = j
        /\ \A d \in InsertRows, now \in Timestamps :
              LET r == insert_data(tables, uuids, now, n, d, FALSE) IN
              (Has(d, "id") /\ \E i \in DOMAIN t.rows :
                                  t.rows[i]["id"] = Text(PyToStr(Get(d, "id"))))
                => ~IsOk(r.ret) /\ SameRows(t, r.tables[n])

\* C24: every insert either returns the id of the row it added or raises and
\* leaves the rows of the table as they were before the call, an insert without
\* a generated id of a row that has no id key included
C24_InsertReturnsOrKeeps ==
    \A n \in UserTables \cap DOMAIN tables, d \in InsertRows, g \in BOOLEAN,
       now \in Timestamps :
        LET r == insert_data(tables, uuids, now, n, d, g)
            t2 == r.tables[n]
        IN  IF IsOk(r.ret)
              THEN /\ RowAdded(r, n)
                   /\ t2.rows[Len(t2.rows)]["id"] = Text(PyToStr(Val(r.ret)))
            ELSE SameRows(tables[n], t2)

-----------------------------------------------------------------------------
(* Properties: the schema config store *)

\* C2: deleteTable(n) on a name with no physical table fails with NotFound and
\* changes nothing; a successful deleteTable(n) leaves tableExists(n) false; and
\* a table that does not exist comes to exist only in a step in which
\* createTable(n) or createTableFromConfig(n) succeeds
C2_DeleteTable ==
    [][ /\ \A n \in AllNames :
             call' = Called("delete_table", n) =>
               IF table_exists(tables, n)
                 THEN IsOk(ret') /\ ~table_exists(tables', n)
               ELSE ret'.kind = "TableNotFoundError" /\ tables' = tables
        /\ \A n \in AllNames :
             ~table_exists(tables, n) /\ table_exists(tables', n) =>
               /\ call' \in {Called("create_table", n),
                             Called("create_table_from_config", n)}
               /\ IsOk(ret')
      ]_vars

\* the system table is as _ensure_config_table created it, but for columns added
SystemTableIntact(T) == InMaster(T, ConfigTable) /\ T[ConfigTable].pk = "table_name"

\* the system table holds no row for table_name
NoStoredConfig(T, table_name) ==
    \/ ~InMaster(T, ConfigTable)
    \/ "table_name" \notin ColSet(T[ConfigTable])
    \/ \A i \in DOMAIN T[ConfigTable].rows :
          T[ConfigTable].rows[i]["table_name"] # Text(table_name)

\* the declared type of key in a stored config
Tag(config, key) == Get(config, key)[2]

\* the value of a data item cannot be converted to the numeric type declared
Unparseable(config, item) ==
    /\ Has(config, item[1])
    /\ \/ Tag(config, item[1]) = "int" /\ ~PyInt_of(item[2])[1]
       \/ Tag(config, item[1]) = "float" /\ ~PyFloat_of(item[2])[1]

\* what a key of the data holds after validation, by its declared type
Validated(config, out, key, value) ==
    IF ~Has(config, key) THEN Has(out, key) /\ Get(out, key) = value
    ELSE LET tag == Tag(config, key) IN
         CASE tag \in {"auto", "id"} -> ~Has(out, key)
           [] tag = "str" -> Has(out, key) /\ Get(out, key) = PyStr(PyToStr(value))
           [] tag = "int" -> Has(out, key) /\ Get(out, key) = PyInt(PyInt_of(value)[2])
           [] tag = "bool" ->
                /\ Has(out, key)
                /\ Get(out, key) =
                     PyBool(IF IsStr(value)
                              THEN StrLower(value[2]) \in {"true", "1", "yes"}
                            ELSE PyTruth(value))
           [] OTHER -> Has(out, key)

NameAge == << <<"name", PyStr("str")>>, <<"age", PyStr("int")>> >>

\* C7: with a config stored for the table, validate returns a row in which a
\* key tagged String holds the value's string form, a key tagged Integer the
\* parsed integer, a key tagged Boolean true iff the text lower-cased is one of
\* true/1/yes (the truthiness of a value that is no text), a key tagged Auto or
\* Id is absent and a key the config does not name holds its value unchanged;
\* a value that cannot be parsed makes validate fail with InvalidType
\* (ValueError) naming the first such column.  With name: str, age: int stored,
\* {name: Alice, age: "30"} gives {name: Alice, age: 30} and
\* {age: "not-a-number"} fails naming age.
C7_Validate ==
    \A n \in ConfigNames :
        LET g == get_table_config(tables, n).ret IN
        (IsOk(g) /\ Val(g) # PyNone) =>
          LET config == Val(g)[2] IN
          /\ \A d \in ValidateRows :
               LET r == validate_data_with_config(tables, n, d).ret
                   bad == {i \in DOMAIN d : Unparseable(config, d[i])}
               IN  IF bad # {}
                     THEN LET i == CHOOSE j \in bad : \A k \in bad : j <= k IN
                          r = Raise("ValueError", <<d[i][1], Tag(config, d[i][1])>>)
                   ELSE /\ IsOk(r)
                        /\ KeySet(Val(r)[2]) \subseteq KeySet(d)
                        /\ \A i \in DOMAIN d :
                             Validated(config, Val(r)[2], d[i][1], d[i][2])
          /\ config = NameAge =>
               /\ validate_data_with_config(tables, n,
                      << <<"name", PyStr("Alice")>>, <<"age", PyStr("30")>> >>).ret
                  = Ok(PyDict(<< <<"name", PyStr("Alice")>>, <<"age", PyInt(30)>> >>))
               /\ validate_data_with_config(tables, n,
                      << <<"age", PyStr("not-a-number")>> >>).ret
                  = Raise("ValueError", <<"age", "int">>)

\* C7 witness: validate has just returned the age of a row as a number under
\* the stored config name: str, age: int
C7_Witness ==
    /\ call = Called("validate_data_with_config", "users")
    /\ ret = Ok(PyDict(<< <<"name", PyStr("Alice")>>, <<"age", PyInt(30)>> >>))
    /\ get_table_config(tables, "users").ret = Ok(PyDict(NameAge))

\* C8: with no config stored for the table, validate returns every row
\* unchanged and raises no error
C8_ValidatePassThrough ==
    \A n \in ConfigNames :
        NoStoredConfig(tables, n) =>
          \A d \in ValidateRows :
              validate_data_with_config(tables, n, d) = Done(tables, Ok(PyDict(d)))

\* C8 while the system table is as created at startup
C8_WithSystemTableIntact ==
    SystemTableIntact(tables) => C8_ValidatePassThrough

\* the canonical tag of a declared type: the type objects str, int, float and
\* bool become their names, any other value its literal string form
CanonicalTag(col_type) ==
    IF col_type \in {PyType("str"), PyType("int"), PyType("float"), PyType("bool")}
      THEN PyStr(col_type[2])
    ELSE PyStr(PyToStr(col_type))

Canonical(config) == [i \in DOMAIN config |-> <<config[i][1], CanonicalTag(config[i][2])>>]

\* C9: saveConfig(n, cfg) followed by getConfig(n) returns the config with the
\* same keys and each declared type replaced by its canonical tag
C9_ConfigRoundTrip ==
    \A n \in ConfigNames, c \in Configs, now \in Timestamps :
        LET saved == save_table_config(tables, now, n, c) IN
        IsOk(saved.ret) =>
          get_table_config(saved.tables, n).ret = Ok(PyDict(Canonical(c)))

\* C9 while the system table is as created at startup
C9_WithSystemTableIntact ==
    SystemTableIntact(tables) => C9_ConfigRoundTrip

\* the rows of the system table stored for table_name
StoredFor(T, table_name) ==
    {i \in DOMAIN T[ConfigTable].rows :
        T[ConfigTable].rows[i]["table_name"] = Text(table_name)}

\* C10: a later saveConfig(n, c2) replaces the config stored for n entirely,
\* leaves the configs stored for every other name as they were, and no name
\* has more than one stored config in any reachable state
C10_ConfigOverwrite ==
    /\ \A n \in ConfigNames, c1 \in Configs, c2 \in Configs, now \in Timestamps :
         LET s1 == save_table_config(tables, now, n, c1)
             s2 == save_table_config(s1.tables, now, n, c2)
         IN  IsOk(s1.ret) =>
               /\ IsOk(s2.ret)
               /\ get_table_config(s2.tables, n).ret = Ok(PyDict(Canonical(c2)))
               /\ \A m \in ConfigNames \ {n} :
                    get_table_config(s2.tables, m).ret = get_table_config(tables, m).ret
    /\ (InMaster(tables, ConfigTable) /\ "table_name" \in ColSet(tables[ConfigTable])) =>
         \A n \in ConfigNames : Cardinality(StoredFor(tables, n)) <= 1

\* C10 while the system table is as created at startup
C10_WithSystemTableIntact ==
    SystemTableIntact(tables) => C10_ConfigOverwrite

\* C11: getConfig(n) returns None when no config is stored for n;
\* deleteConfig(n) succeeds whether or not a config is stored, getConfig(n)
\* returns None after it, a second deleteConfig(n) changes nothing, and the
\* configs stored for the other names and every physical table but the
\* system table are as they were
C11_DeleteConfig ==
    \A n \in ConfigNames :
        LET d == delete_table_config(tables, n)
            d2 == delete_table_config(d.tables, n)
        IN  /\ NoStoredConfig(tables, n) => get_table_config(tables, n).ret = Ok(PyNone)
            /\ IsOk(d.ret)
            /\ get_table_config(d.tables, n).ret = Ok(PyNone)
            /\ IsOk(d2.ret) /\ d2.tables = d.tables
            /\ \A m \in ConfigNames \ {n} :
                  get_table_config(d.tables, m).ret = get_table_config(tables, m).ret
            /\ OthersSame(tables, d.tables, ConfigTable)

\* C11 while the system table is as created at startup
C11_WithSystemTableIntact ==
    SystemTableIntact(tables) => C11_DeleteConfig

\* C12: createTableFromConfig(n, cfg) fails with AlreadyExists when the table
\* n exists and then leaves every table and stored config as it was; otherwise
\* it succeeds for every config, and afterwards the table n exists with the
\* columns id, created_at and every key of cfg other than id, holds no rows,
\* and getConfig(n) returns the normalized cfg.  Database and Client alike.
C12_CreateTableFromConfig ==
    \A n \in AllNames, c \in Configs, now \in Timestamps :
        LET r == create_table_from_config(tables, now, n, c)
            k == Client_create_table_from_config(tables, now, << <<n, c>> >>, PyStr(n))
            a == Client_create_table_from_config(tables, now, << <<n, c>> >>, PyNone)
        IN  /\ k.tables = r.tables /\ a.tables = r.tables
            /\ IsOk(k.ret) = IsOk(r.ret) /\ IsOk(a.ret) = IsOk(r.ret)
            /\ IF table_exists(tables, n)
                  THEN r.ret.kind = "TableAlreadyExistsError" /\ r.tables = tables
                ELSE /\ IsOk(r.ret)
                     /\ table_exists(r.tables, n)
                     /\ ColSet(r.tables[n]) = Reserved \cup (KeySet(c) \ {"id"})
                     /\ r.tables[n].rows = <<>>
                     /\ get_table_config(r.tables, n).ret = Ok(PyDict(Canonical(c)))

\* deleting the table n the way d does leaves no table n and no config for n
GoneWithConfig(d, n) ==
    IsOk(d.ret) =>
      /\ ~table_exists(d.tables, n)
      /\ get_table_config(d.tables, n).ret = Ok(PyNone)

\* C14 for the table n
DeleteTableFrame(n) ==
    LET r == delete_table(tables, n) IN
    /\ IsOk(r.ret) =>
          /\ ~table_exists(r.tables, n)
          /\ \A m \in AllNames :
                get_table_config(r.tables, m).ret = get_table_config(tables, m).ret
    /\ GoneWithConfig(Client_delete_table(tables, n), n)
    /\ \A c \in Configs :
          GoneWithConfig(Client_delete_table_from_config(tables, << <<n, c>> >>, n), n)

\* C14: the core deleteTable(n) removes the table and leaves every stored
\* config, the one stored for n included, as it was; the client's delete_table(n)
\* and delete_table_from_config(cfg, n), when they succeed, leave tableExists(n)
\* false and getConfig(n) None
C14_DeleteTableConfigs == \A n \in AllNames : DeleteTableFrame(n)

\* C14 for the tables other than the system table
C14_OnUserTables == \A n \in AllNames \ {ConfigTable} : DeleteTableFrame(n)

-----------------------------------------------------------------------------
(* Properties: one caller on user tables *)

\* C15: listTables returns exactly the names of the physical tables that
\* exist, each once, and the system table is among them in every state that
\* createTable, createTableFromConfig, insert, delete and the config operations
\* on user tables reach
C15_ListTables ==
    LET r == get_all_tables(tables)
        names == Val(r.ret)
    IN  /\ IsOk(r.ret) /\ r.tables = tables
        /\ \A m \in AllNames : (m \in Range(names)) <=> table_exists(tables, m)
        /\ Range(names) \subseteq AllNames
        /\ \A i, j \in DOMAIN names : names[i] = names[j] => i = j
        /\ ConfigTable \in Range(names)

\* C15 witness: get_all_tables has just listed the system table and the table
\* users, which holds a row and has a stored config
C15_Witness ==
    /\ call = Called("get_all_tables", "")
    /\ IsOk(ret)
    /\ Range(Val(ret)) = {"users", ConfigTable}
    /\ Len(Val(ret)) = 2
    /\ Len(tables["users"].rows) > 0
    /\ ~NoStoredConfig(tables, "users")

\* every stored row has a cell for each column of its table and no other
RowsWithinColumns(T) ==
    \A n \in DOMAIN T : \A i \in DOMAIN T[n].rows : DOMAIN T[n].rows[i] = ColSet(T[n])

\* the table of the insert_data call x is the table the call began with, the
\* columns of its dict added and no row added, changed or removed
ColumnsAddedRowsKept(x) ==
    /\ table_exists(tables, x.table_name)
    /\ KeySet(x.data) \subseteq ColSet(tables[x.table_name])
    /\ Evolved(x.before[x.table_name], tables[x.table_name],
               KeySet(x.data) \ Reserved)

\* C18: within insert the commit of the column evolution precedes the commit
\* of the row: in every reachable state every stored row references only
\* columns of its table; between the two commits the table has the columns of
\* the row and the rows it had when the insert began; and an insert that fails
\* between the two commits, at its INSERT, leaves the table like that
C18_ColumnsBeforeRow ==
    LET x == writers[1] IN
    /\ RowsWithinColumns(tables)
    /\ x.pc = "insert" => ColumnsAddedRowsKept(x)
    /\ (x.pc = "done" /\ x.op = "insert_data" /\ x.raised_at = "insert"
          /\ x.result \notin {"ok", "KeyError"}) => ColumnsAddedRowsKept(x)
    /\ (x.pc = "done" /\ x.op = "insert_data" /\ x.result \in {"ok", "KeyError"}) =>
          /\ KeySet(x.data) \subseteq ColSet(tables[x.table_name])
          /\ Len(tables[x.table_name].rows) = Len(x.before[x.table_name].rows) + 1

\* C18 witness: an insert has just failed at its INSERT, on an id the table
\* holds, after it added the column name to the table's one row
C18_Witness ==
    LET x == writers[1] IN
    /\ x.pc = "done" /\ x.op = "insert_data"
    /\ x.raised_at = "insert" /\ x.result = "IntegrityError"
    /\ ret.kind = "IntegrityError"
    /\ "name" \notin ColSet(x.before["users"])
    /\ "name" \in ColSet(tables["users"])
    /\ Len(tables["users"].rows) = 1
    /\ tables["users"].rows[1]["name"] = NULL

\* an insert_data or add_columns_if_needed call taken statement by statement
\* by the one caller ends as the method taken as a whole does
StepsAgree ==
    LET x == writers[1] IN
    /\ (x.pc = "done" /\ x.op = "insert_data") =>
          LET r == insert_data(x.before, x.u0, x.now, x.table_name, x.given,
                               x.generate_id)
          IN  r.tables = tables /\ r.uuids = uuids /\ r.ret = ret
    /\ (x.pc = "done" /\ x.op = "add_columns_if_needed") =>
          \E a \in StepWriterColumns :
              LET r == add_columns_if_needed(x.before, a[1], a[2]) IN
              r.tables = tables /\ r.ret.kind = ret.kind

-----------------------------------------------------------------------------
(* Properties: two writers on the one connection *)

\* C16: when two writers run ensureColumns, directly or through insert, on the
\* same existing table with the same column that is not yet present, then in
\* every interleaving of their statements neither call ends in an error at its
\* column additions, and the table has the column exactly once
C16_ConcurrentEnsureColumns ==
    /\ \A w \in Writers :
          (writers[w].pc = "done" /\ writers[w].raised_at = "alter") =>
            writers[w].result = "ok"
    /\ \A w \in Writers :
          (writers[w].pc \in {"insert", "done"} /\ writers[w].result \in {"", "ok"}
             /\ writers[w].raised_at \in {"", "alter", "insert"}) =>
            /\ table_exists(tables, writers[w].table_name)
            /\ "name" \in ColSet(tables[writers[w].table_name])
    /\ \A n \in DOMAIN tables : ColumnsOnce(tables[n])

\* C25: the system config table exists in every state reached after startup by
\* any sequence of public operations with any table names, the system table's
\* own name included, so saveConfig, getConfig and deleteConfig never fail
\* because the system table is missing
C25_SystemTableExists ==
    /\ table_exists(tables, ConfigTable)
    /\ \A n \in ConfigNames, c \in Configs, now \in Timestamps :
          /\ save_table_config(tables, now, n, c).ret
               # Raise("OperationalError", "no such table")
          /\ get_table_config(tables, n).ret
               # Raise("OperationalError", "no such table")
          /\ delete_table_config(tables, n).ret
               # Raise("OperationalError", "no such table")


\* the names the system table holds a row for
StoredNames(T) ==
    IF InMaster(T, ConfigTable) /\ "table_name" \in ColSet(T[ConfigTable])
      THEN {T[ConfigTable].rows[i]["table_name"] : i \in DOMAIN T[ConfigTable].rows}
    ELSE {}

\* C26: after every completed Client.create_table,
\* Client.create_table_from_config, Client.delete_table and
\* Client.delete_table_from_config call of any sequence of such calls,
\* successful or failing, every table name with a stored config has a physical
\* table
C26_NoOrphanConfig ==
    \A name \in StoredNames(tables) :
        \E n \in DOMAIN tables : name = Text(n) /\ table_exists(tables, n)

\* C26 witness: Client.delete_table has just dropped the table users, no config
\* is stored for users, and the config of the table orders is still stored
C26_Witness ==
    /\ call = Called("Client.delete_table", "users")
    /\ IsOk(ret)
    /\ ~table_exists(tables, "users")
    /\ table_exists(tables, "orders")
    /\ StoredNames(tables) = {Text("orders")}


\* writer w has completed a call that creates table_name, begun when the table
\* did not exist
CreatedAbsent(w, table_name) ==
    /\ writers[w].pc = "done"
    /\ writers[w].op \in {"create_table", "Client.create_table"}
    /\ writers[w].table_name = table_name
    /\ ~table_exists(writers[w].before, table_name)

\* C27: when two callers concurrently run createTable(n) for a name n that does
\* not exist, in every interleaving of their existence checks and create
\* statements at most one call returns success and the other fails with
\* AlreadyExists
C27_ConcurrentCreate ==
    \A n \in CreateNames :
        (CreatedAbsent(1, n) /\ CreatedAbsent(2, n)) =>
            \E w \in Writers :
                /\ writers[w].result = "TableAlreadyExistsError"
                /\ writers[3 - w].result = "ok"


\* C28: tableExists, getColumns, listTables, search, getAll, getConfig and
\* validate change no persisted state: the tables, their columns, their rows
\* and the stored configs are after the call what they were before it, whether
\* the call succeeds or fails (table_exists is the SELECT on sqlite_master that
\* the other methods begin with, a predicate of the state)
C28_ReadOnly ==
    /\ get_all_tables(tables).tables = tables
    /\ \A n \in AllNames :
          /\ get_table_columns(tables, n).tables = tables
          /\ get_all_data(tables, n).tables = tables
          /\ get_table_config(tables, n).tables = tables
          /\ \A x \in IndexValues, f \in FilterMaps :
                search(tables, n, x, f).tables = tables
          /\ \A d \in ValidateRows :
                validate_data_with_config(tables, n, d).tables = tables

\* C28 witness: getConfig has just returned the stored config of the table
\* users, which holds a row, and a search of the table on a column it lacks
\* fails
C28_Witness ==
    /\ call = Called("get_table_config", "users")
    /\ IsOk(ret) /\ Val(ret) # PyNone
    /\ table_exists(tables, "users")
    /\ tables["users"].rows # <<>>
    /\ ~IsOk(search(tables, "users", PyNone, << <<"zip", PyStr("x")>> >>).ret)


\* the dashboard threads of the client that are alive
Alive == {i \in DOMAIN threads : threads[i]}

\* C29: Client.start_dashboard starts no new dashboard thread while a
\* dashboard thread the client started earlier is alive: after any sequence of
\* start_dashboard calls made one after another at most one dashboard thread
\* of the client is alive at any time
C29_OneDashboard ==
    /\ Cardinality(Alive) <= 1
    /\ Alive \subseteq {_dashboard_thread}
    /\ Alive # {} =>
         start_dashboard(_dashboard_thread, threads)
           = [thread |-> _dashboard_thread, threads |-> threads]

\* C29 witness: start_dashboard has just started the client's second thread,
\* the first having ended
C29_Witness ==
    /\ call = Called("start_dashboard", "")
    /\ _dashboard_thread = 2
    /\ threads = <<FALSE, TRUE>>


====
